---- MODULE Spec2Model ----
(***************************************************************************)
(* A model of src/app.py: the Streamlit page that sends a prompt and an    *)
(* optional schema to the extraction API and appends the rendered result   *)
(* to a chat transcript.                                                   *)
(*                                                                         *)
(* Spec        the session: sidebar widgets, chat submissions, reset_chat  *)
(* SpecFlatten flatten_json applied to bounded JSON values                 *)
(* SpecSchema  create_schema_from_fields applied to bounded field lists    *)
(* SpecTable   convert_to_table applied to bounded data values             *)
(***************************************************************************)
EXTENDS Integers, Sequences, FiniteSets, TLC

VARIABLES
    messages,       \* st.session_state.messages
    schema_fields,  \* st.session_state.schema_fields
    website_url,    \* the sidebar's URL text input
    pc,             \* where the script run of a submission stands
    prompt,         \* the prompt of the submission being processed
    extract_params, \* the parameters handed to app.extract
    response,       \* the handler's `data`: what app.extract gave the latest run
    calls,          \* app.extract invocations of the latest script run
    stage,          \* the furthest pipeline stage the latest script run reached
    outcome,        \* how the latest script run ended
    raised,         \* an earlier submission of the session ended in an exception
    shown,          \* what the run rendered in the assistant bubble
    base,           \* the transcript when the latest script run began
    fn,             \* the pure function under test (pure specifications)
    arg,            \* its argument
    arg2,           \* its separator argument (flatten_json)
    out             \* its result

vars == <<messages, schema_fields, website_url, pc, prompt, extract_params,
          response, calls, stage, outcome, raised, shown, base, fn, arg, arg2, out>>

sessionVars == <<messages, schema_fields, website_url, pc, prompt,
                 extract_params, response, calls, stage, outcome, raised, shown,
                 base>>

fnVars == <<fn, arg, arg2, out>>

-----------------------------------------------------------------------------
(* JSON values as Python holds them.  Every value is a record of one shape  *)
(* so that any two compare: t is the Python type, s the payload of a str,   *)
(* n the payload of an int or a bool, ch the entries of a dict (k, v) or    *)
(* the elements of a list (k = "").  "object" is a Python object that is    *)
(* no JSON type; "raise" stands for an exception leaving the call.          *)

JStr(s) == [t |-> "str", s |-> s, n |-> 0, ch |-> <<>>]

JNum(n) == [t |-> "int", s |-> "", n |-> n, ch |-> <<>>]

JBool(b) == [t |-> "bool", s |-> "", n |-> IF b THEN 1 ELSE 0, ch |-> <<>>]

JNull == [t |-> "None", s |-> "", n |-> 0, ch |-> <<>>]

JObj(entries) == [t |-> "dict", s |-> "", n |-> 0, ch |-> entries]

JArr(elems) == [t |-> "list", s |-> "", n |-> 0, ch |-> elems]

PyObject == [t |-> "object", s |-> "", n |-> 0, ch |-> <<>>]

Raise(e) == [t |-> "raise", s |-> e, n |-> 0, ch |-> <<>>]

IsRaise(r) == r.t = "raise"

Entry(k, v) == [k |-> k, v |-> v]

Elem(v) == [k |-> "", v |-> v]

\* Python truthiness (`if not data`, `if parent_key`, `if schema`).
Truthy(x) ==
    CASE x.t = "str" -> x.s # ""
      [] x.t \in {"int", "bool"} -> x.n # 0
      [] x.t = "None" -> FALSE
      [] x.t \in {"dict", "list"} -> Len(x.ch) > 0
      [] OTHER -> TRUE

\* str(x) of a scalar.
PyStr(x) ==
    CASE x.t = "str" -> x.s
      [] x.t = "int" -> ToString(x.n)
      [] x.t = "bool" -> IF x.n # 0 THEN "True" ELSE "False"
      [] OTHER -> "None"

KeyIndex(items, k) ==
    IF \E i \in 1..Len(items) : items[i].k = k
    THEN CHOOSE i \in 1..Len(items) : items[i].k = k
    ELSE 0

\* dict(items): a later pair with a key already present replaces its value
\* and keeps the key's position.
RECURSIVE dict(_)
dict(items) ==
    IF items = <<>> THEN <<>>
    ELSE LET head == dict(SubSeq(items, 1, Len(items) - 1))
             last == items[Len(items)]
             at == KeyIndex(head, last.k)
         IN IF at = 0 THEN Append(head, last)
            ELSE [head EXCEPT ![at] = last]

-----------------------------------------------------------------------------
(* flatten_json, src/app.py lines 48-65 *)

RECURSIVE flatten_json(_, _, _)
RECURSIVE flatten_list_value(_, _, _, _)
RECURSIVE flatten_dict_items(_, _, _, _)
RECURSIVE flatten_list(_, _, _, _)

\* Lines 57-58: the pairs the elements i.. of a list value add to items;
\* `.items()` of a result that is no dict raises AttributeError.
flatten_list_value(v, new_key, sep, i) ==
    IF i > Len(v) THEN JObj(<<>>)
    ELSE LET r == flatten_json(v[i].v, new_key \o "_" \o ToString(i - 1), sep)
             rest == flatten_list_value(v, new_key, sep, i + 1)
         IN IF IsRaise(r) THEN r
            ELSE IF r.t # "dict" THEN Raise("AttributeError")
            ELSE IF IsRaise(rest) THEN rest
            ELSE JObj(r.ch \o rest.ch)

\* Lines 52-60: the pairs the entries i.. of a dict add to items.
flatten_dict_items(entries, parent_key, sep, i) ==
    IF i > Len(entries) THEN JObj(<<>>)
    ELSE LET k == entries[i].k
             v == entries[i].v
             new_key == IF parent_key # "" THEN parent_key \o sep \o k ELSE k
             mine == IF v.t = "dict" THEN flatten_json(v, new_key, sep)
                     ELSE IF v.t = "list"
                          THEN flatten_list_value(v.ch, new_key, sep, 1)
                     ELSE JObj(<<Entry(new_key, v)>>)
             rest == flatten_dict_items(entries, parent_key, sep, i + 1)
         IN IF IsRaise(mine) THEN mine
            ELSE IF IsRaise(rest) THEN rest
            ELSE JObj(mine.ch \o rest.ch)

\* Line 62: the list comprehension over the elements i.. of a list.
flatten_list(elems, parent_key, sep, i) ==
    IF i > Len(elems) THEN JArr(<<>>)
    ELSE LET r == flatten_json(elems[i].v, parent_key, sep)
             rest == flatten_list(elems, parent_key, sep, i + 1)
         IN IF IsRaise(r) THEN r
            ELSE IF IsRaise(rest) THEN rest
            ELSE JArr(<<Elem(r)>> \o rest.ch)

flatten_json(nested_json, parent_key, sep) ==
    IF nested_json.t = "dict"
    THEN LET items == flatten_dict_items(nested_json.ch, parent_key, sep, 1)
         IN IF IsRaise(items) THEN items ELSE JObj(dict(items.ch))
    ELSE IF nested_json.t = "list"
    THEN flatten_list(nested_json.ch, parent_key, sep, 1)
    ELSE nested_json

-----------------------------------------------------------------------------
(* convert_to_table, src/app.py lines 67-85 *)

RECURSIVE AllDicts(_)
AllDicts(elems) ==
    elems = <<>> \/ (elems[1].v.t = "dict" /\ AllDicts(Tail(elems)))

RECURSIVE Keys(_)
Keys(entries) ==
    IF entries = <<>> THEN <<>> ELSE <<entries[1].k>> \o Keys(Tail(entries))

RECURSIVE AddNew(_, _)
AddNew(cols, ks) ==
    IF ks = <<>> THEN cols
    ELSE AddNew(IF \E i \in 1..Len(cols) : cols[i] = ks[1]
                THEN cols ELSE Append(cols, ks[1]), Tail(ks))

\* pd.DataFrame(rows).columns: the union of the rows' keys, in order of
\* first appearance.
RECURSIVE Columns(_)
Columns(rows) ==
    IF rows = <<>> THEN <<>>
    ELSE LET before == Columns(SubSeq(rows, 1, Len(rows) - 1))
         IN AddNew(before, Keys(rows[Len(rows)].v.ch))

Cell(row, col) ==
    LET at == KeyIndex(row.ch, col)
    IN IF at = 0 THEN "nan" ELSE PyStr(row.ch[at].v)

RECURSIVE HeaderLine(_)
HeaderLine(cols) ==
    IF cols = <<>> THEN "|" ELSE "| " \o cols[1] \o " " \o HeaderLine(Tail(cols))

RECURSIVE RowLine(_, _)
RowLine(row, cols) ==
    IF cols = <<>> THEN "|"
    ELSE "| " \o Cell(row, cols[1]) \o " " \o RowLine(row, Tail(cols))

RECURSIVE RowLines(_, _)
RowLines(rows, cols) ==
    IF rows = <<>> THEN ""
    ELSE "\n" \o RowLine(rows[1].v, cols) \o RowLines(Tail(rows), cols)

\* df.to_markdown(index=False): a header line, then one line per row; a
\* cell a row has no key for renders as nan.
to_markdown(rows) ==
    LET cols == Columns(rows)
    IN HeaderLine(cols) \o RowLines(rows, cols)

NoDataAvailable == "No data available."

InvalidDataFormatReceived == "Invalid data format received."

ExtractedText == "Extracted text: "

\* convert_to_table without its `isinstance(data, str)` branch.
convert_to_table_no_str(data) ==
    IF ~Truthy(data) THEN NoDataAvailable
    ELSE IF data.t = "list" /\ AllDicts(data.ch) THEN to_markdown(data.ch)
    ELSE IF data.t = "dict" THEN to_markdown(<<Elem(data)>>)
    ELSE InvalidDataFormatReceived

convert_to_table(data) ==
    IF ~Truthy(data) THEN NoDataAvailable
    ELSE IF data.t = "list" /\ AllDicts(data.ch) THEN to_markdown(data.ch)
    ELSE IF data.t = "dict" THEN to_markdown(<<Elem(data)>>)
    ELSE IF data.t = "str" THEN ExtractedText \o data.s
    ELSE InvalidDataFormatReceived

-----------------------------------------------------------------------------
(* create_dynamic_model and create_schema_from_fields, lines 31-46 *)

Field(name, type) == [name |-> name, type |-> type]

\* Line 34: type_mapping.get(field["type"], str).
type_mapping(tag) ==
    IF tag \in {"str", "bool", "int", "float"} THEN tag ELSE "str"

\* Lines 33-38: the annotations of the dynamic model, a dict from each
\* non-empty name to its Python type.
RECURSIVE field_annotations(_)
field_annotations(fields) ==
    IF fields = <<>> THEN <<>>
    ELSE LET head == field_annotations(SubSeq(fields, 1, Len(fields) - 1))
             field == fields[Len(fields)]
         IN IF field.name # ""
            THEN dict(Append(head, Entry(field.name, type_mapping(field.type))))
            ELSE head

\* The JSON-Schema type name pydantic gives a Python type.
JsonType(pytype) ==
    CASE pytype = "str" -> "string"
      [] pytype = "bool" -> "boolean"
      [] pytype = "int" -> "integer"
      [] pytype = "float" -> "number"

\* BaseModel.model_json_schema() of a model with these annotations and no
\* defaults: one typed property per annotation, each of them required.
model_json_schema(annotations) ==
    [type |-> "object",
     properties |-> [i \in 1..Len(annotations) |->
                        Entry(annotations[i].k, JsonType(annotations[i].v))],
     required |-> Keys(annotations)]

create_dynamic_model(fields) == field_annotations(fields)

None == [type |-> "None", properties |-> <<>>, required |-> <<>>]

\* `all` where line 44 has `any`.
AllNames(fields) == \A i \in 1..Len(fields) : fields[i].name # ""

AnyName(fields) == \E i \in 1..Len(fields) : fields[i].name # ""

create_schema_from_fields(fields) ==
    IF ~AnyName(fields) THEN None
    ELSE model_json_schema(create_dynamic_model(fields))

-----------------------------------------------------------------------------
(* The session: module-level script of src/app.py, lines 20-29, 104-171 *)

\* Line 119: the sidebar offers "Add Field" while there are fewer fields.
MaxFields == 5

\* The transcript is not let grow past this many entries.
MaxMsgs == 4

Prompts == {"what is the title?"}

Urls == {"", "https://example.com"}

\* What the user types into a "Field Name" input.
FieldNames == {"", "title"}

\* Line 117: the options of the "Type" selectbox the user picks among.
TypeChoices == {"str", "int"}

EmptyField == Field("", "str")

Message(role, content) == [role |-> role, content |-> content]

NoParams == [prompt |-> "", has_schema |-> FALSE, schema |-> None]

\* What app.extract can do with a request: raise, or return one of these.
Payloads ==
    { JArr(<<Elem(JObj(<<Entry("title", JStr("Example")),
                         Entry("meta", JObj(<<Entry("lang", JStr("en"))>>))>>))>>),
      JObj(<<Entry("links", JArr(<<Elem(JObj(<<Entry("href", JStr("/a"))>>))>>))>>),
      JObj(<<Entry("tags", JArr(<<Elem(JStr("x"))>>))>>),
      JArr(<<Elem(JObj(<<Entry("tags", JArr(<<Elem(JNum(1))>>))>>))>>),
      JArr(<<>>),
      JStr("plain text"),
      JNull }

Responses ==
    { JObj(<<Entry("success", JBool(TRUE)), Entry("data", d)>>) : d \in Payloads }
    \cup { JObj(<<Entry("success", JBool(FALSE)), Entry("error", JStr("Unauthorized"))>>),
           JArr(<<>>),
           PyObject,
           Raise("HTTPError") }

\* json.dumps(data): a value holding anything but JSON types raises TypeError.
RECURSIVE json_serializable(_)
json_serializable(x) ==
    /\ x.t \in {"str", "int", "bool", "None", "dict", "list"}
    /\ \A i \in 1..Len(x.ch) : json_serializable(x.ch[i].v)

\* Line 151: isinstance(data, dict) and "data" in data.
HasData(data) == data.t = "dict" /\ KeyIndex(data.ch, "data") # 0

\* Line 155: data.get("data").
GetData(data) == data.ch[KeyIndex(data.ch, "data")].v

UrlMissing == "Please enter a website URL first!"

UnexpectedFormat ==
    "Unexpected API response format. Please check the API key and request."

ErrorOccurred(e) == "An error occurred: " \o e

InvalidDataFormat == "Invalid data format."

\* Lines 157-164: the table of the payload, or the exception flatten_json
\* raises on the way.
TableOf(api_data) ==
    IF api_data.t = "list"
    THEN LET table_data == flatten_list(api_data.ch, "", "_", 1)
         IN IF IsRaise(table_data) THEN table_data
            ELSE JStr(convert_to_table(table_data))
    ELSE IF api_data.t = "dict"
    THEN LET flat == flatten_json(api_data, "", "_")
         IN IF IsRaise(flat) THEN flat ELSE JStr(convert_to_table(flat))
    ELSE JStr(InvalidDataFormat)

NoResponse == [t |-> "unset", s |-> "", n |-> 0, ch |-> <<>>]

NoFn == [name |-> "none", done |-> FALSE]

SessionInit ==
    /\ messages = <<>>
    /\ schema_fields = <<EmptyField>>
    /\ website_url = ""
    /\ pc = "idle"
    /\ prompt = ""
    /\ extract_params = NoParams
    /\ response = NoResponse
    /\ calls = 0
    /\ stage = "Idle"
    /\ outcome = "none"
    /\ raised = FALSE
    /\ shown = ""
    /\ base = <<>>

Init ==
    /\ SessionInit
    /\ fn = NoFn
    /\ arg = JNull
    /\ arg2 = JNull
    /\ out = JNull

\* Line 127: a script run in which st.chat_input returns no prompt; the
\* submission block is skipped and nothing of an earlier run stays on screen.
NoSubmission ==
    /\ prompt' = ""
    /\ extract_params' = NoParams
    /\ response' = NoResponse
    /\ calls' = 0
    /\ stage' = "Idle"
    /\ outcome' = "none"
    /\ shown' = ""
    /\ base' = messages'
    /\ UNCHANGED <<pc, raised>>

\* Line 107: the user edits the URL field; the script reruns.
EditUrl(u) ==
    /\ pc = "idle"
    /\ website_url' = u
    /\ UNCHANGED <<messages, schema_fields>>
    /\ NoSubmission
    /\ UNCHANGED fnVars

\* Line 115: the user edits the name input of field i.
EditFieldName(i, name) ==
    /\ pc = "idle"
    /\ i \in 1..Len(schema_fields)
    /\ schema_fields' = [schema_fields EXCEPT ![i].name = name]
    /\ UNCHANGED <<messages, website_url>>
    /\ NoSubmission
    /\ UNCHANGED fnVars

\* Line 117: the user picks a type for field i.
EditFieldType(i, type) ==
    /\ pc = "idle"
    /\ i \in 1..Len(schema_fields)
    /\ schema_fields' = [schema_fields EXCEPT ![i].type = type]
    /\ UNCHANGED <<messages, website_url>>
    /\ NoSubmission
    /\ UNCHANGED fnVars

\* The button without the `len(...) < 5` of line 119.
AddFieldUnlimited ==
    /\ pc = "idle"
    /\ schema_fields' = Append(schema_fields, EmptyField)
    /\ UNCHANGED <<messages, website_url>>
    /\ NoSubmission
    /\ UNCHANGED fnVars

\* Lines 119-120: the "Add Field" button, there only below MaxFields fields.
AddField ==
    /\ pc = "idle"
    /\ Len(schema_fields) < MaxFields
    /\ schema_fields' = Append(schema_fields, EmptyField)
    /\ UNCHANGED <<messages, website_url>>
    /\ NoSubmission
    /\ UNCHANGED fnVars

\* Lines 27-29.
reset_chat ==
    /\ pc = "idle"
    /\ messages' = <<>>
    /\ UNCHANGED <<schema_fields, website_url>>
    /\ NoSubmission
    /\ UNCHANGED fnVars

\* Line 128 assigning a new list where it appends.
AppendUserReplacing(p) == messages' = <<Message("user", p)>>

\* Line 128.
AppendUser(p) == messages' = Append(messages, Message("user", p))

\* Line 168 run twice.
AppendAssistantTwice(table) ==
    messages' = messages \o <<Message("assistant", table), Message("assistant", table)>>

\* Line 168.
AppendAssistant(table) ==
    messages' = Append(messages, Message("assistant", table))

\* Lines 127-145: a prompt is submitted.  The user entry is appended; with
\* no URL the run reports it and ends, otherwise it builds the schema and
\* calls app.extract, where it blocks.
Submit(p) ==
    /\ pc = "idle"
    /\ Len(messages) + 2 <= MaxMsgs
    /\ AppendUser(p)
    /\ base' = messages
    /\ prompt' = p
    /\ response' = NoResponse
    /\ IF website_url = ""
       THEN /\ shown' = UrlMissing
            /\ pc' = "idle"
            /\ stage' = "ValidatingInput"
            /\ calls' = 0
            /\ outcome' = "missing_url"
            /\ extract_params' = NoParams
       ELSE LET schema == create_schema_from_fields(schema_fields)
            IN /\ extract_params' = [prompt |-> p,
                                     has_schema |-> schema # None,
                                     schema |-> schema]
               /\ shown' = ""
               /\ pc' = "calling"
               /\ stage' = "CallingExternalAPI"
               /\ calls' = 1
               /\ outcome' = "none"
    /\ UNCHANGED <<schema_fields, website_url, raised>>
    /\ UNCHANGED fnVars

\* The handler of lines 170-171 also appending its error to the transcript.
ExceptAppending(e) ==
    /\ shown' = ErrorOccurred(e)
    /\ outcome' = "exception"
    /\ raised' = TRUE
    /\ messages' = Append(messages, Message("assistant", ErrorOccurred(e)))

\* Lines 170-171: the top-level handler of the run.
Except(e) ==
    /\ shown' = ErrorOccurred(e)
    /\ outcome' = "exception"
    /\ raised' = TRUE
    /\ UNCHANGED messages

\* Lines 145-171: app.extract raises or returns data, and the run goes on
\* to its end.  st.stop() (line 153) ends the run with Streamlit's script
\* control exception, which is no Exception and passes the handler by.
ExtractReturns(r) ==
    /\ pc = "calling"
    /\ pc' = "idle"
    /\ response' = r
    /\ IF IsRaise(r)
       THEN Except(r.s) /\ stage' = "CallingExternalAPI"
       ELSE IF ~json_serializable(r)
       THEN Except("TypeError") /\ stage' = "CallingExternalAPI"
       ELSE IF ~HasData(r)
       THEN /\ shown' = UnexpectedFormat
            /\ stage' = "ValidatingResponse"
            /\ outcome' = "bad_shape"
            /\ UNCHANGED <<messages, raised>>
       ELSE LET table == TableOf(GetData(r))
            IN IF IsRaise(table)
               THEN Except(table.s) /\ stage' = "Flattening"
               ELSE /\ shown' = table.s
                    /\ AppendAssistant(table.s)
                    /\ stage' = "AppendingToTranscript"
                    /\ outcome' = "ok"
                    /\ UNCHANGED raised
    /\ UNCHANGED <<schema_fields, website_url, prompt, extract_params, calls, base>>
    /\ UNCHANGED fnVars

Next ==
    \/ \E u \in Urls : EditUrl(u)
    \/ \E i \in 1..MaxFields, name \in FieldNames : EditFieldName(i, name)
    \/ \E i \in 1..MaxFields, type \in TypeChoices : EditFieldType(i, type)
    \/ AddField
    \/ reset_chat
    \/ \E p \in Prompts : Submit(p)
    \/ \E r \in Responses : ExtractReturns(r)

Spec == Init /\ [][Next]_vars

-----------------------------------------------------------------------------
(* Properties of the session, checked under Spec *)

IsPrefix(s, t) == Len(s) <= Len(t) /\ SubSeq(t, 1, Len(s)) = s

UserEntry == Message("user", prompt)

\* The latest run was a submission with no URL entered.
EmptyUrlSubmission == pc = "idle" /\ outcome = "missing_url"

\* The latest run got a value back from app.extract.
Returned == pc = "idle" /\ response # NoResponse /\ ~IsRaise(response)

\* ... a mapping with a `data` key that flattens without raising.
RequestSucceeds ==
    /\ Returned
    /\ HasData(response)
    /\ ~IsRaise(TableOf(GetData(response)))

\* ... something that is no mapping with a `data` key.
BadShape == Returned /\ ~HasData(response)

\* app.extract raised, or flatten_json did.
RequestRaises ==
    /\ pc = "idle"
    /\ response # NoResponse
    /\ \/ IsRaise(response)
       \/ HasData(response) /\ IsRaise(TableOf(GetData(response)))

OneAnswerAppended ==
    /\ messages = base \o <<UserEntry, Message("assistant", shown)>>
    /\ shown = TableOf(GetData(response)).s
    /\ calls = 1

\* C1: a submission while the URL field is empty never invokes app.extract
\* and leaves the transcript exactly as it was before the submission (no
\* user entry, no assistant entry).
C1_EmptyUrlLeavesTranscript ==
    EmptyUrlSubmission => calls = 0 /\ messages = base

\* C2: when app.extract returns a mapping with a `data` key and flattening
\* does not raise, the request appends exactly one assistant entry, right
\* after its own user entry, and has invoked app.extract exactly once.
C2_OneAssistantEntryPerSuccess == RequestSucceeds => OneAnswerAppended

C2_Witness ==
    /\ RequestSucceeds
    /\ Len(base) = 2
    /\ GetData(response).t = "list"
    /\ extract_params.has_schema

\* C3: when the response is no mapping with a `data` key, the request
\* reports an error and leaves no entry of its own in the transcript (no
\* assistant entry, no user entry without its answer), and flattening and
\* rendering are never reached.
C3_BadShapeLeavesNoEntry ==
    BadShape =>
        /\ shown # ""
        /\ messages = base
        /\ stage \notin {"Flattening", "Rendering", "AppendingToTranscript"}

\* C4: an exception raised by app.extract or while flattening ends only
\* that request: it is reported, no assistant entry is appended, the call is
\* made once and not retried, the earlier entries stay as they were, the
\* session is idle again, and a later submission that succeeds is answered
\* as any other.
C4_ExceptionEndsOnlyTheRequest ==
    /\ (RequestRaises \/ outcome = "exception") =>
          /\ outcome = "exception"
          /\ pc = "idle"
          /\ messages = base \o <<UserEntry>>
          /\ calls = 1
          /\ \E e \in {"HTTPError", "TypeError", "AttributeError"} :
                shown = ErrorOccurred(e)
    /\ (raised /\ RequestSucceeds) => OneAnswerAppended

C4_Witness ==
    /\ raised
    /\ RequestSucceeds
    /\ Len(base) = 1
    /\ base[1].role = "user"

\* C5: the transcript is append-only.  Every entry has role user or
\* assistant; every step but reset_chat leaves the transcript it found as a
\* prefix of the new one; reset_chat leaves it empty.
C5_TranscriptAppendOnly ==
    /\ [](\A i \in 1..Len(messages) : messages[i].role \in {"user", "assistant"})
    /\ [][\/ IsPrefix(messages, messages')
          \/ reset_chat /\ messages' = <<>>]_vars

\* A submission was made, and the transcript is empty: reset_chat ran.
C5_Witness == raised /\ messages = <<>> /\ Len(schema_fields) = 2

\* C10: the pending field list starts as one empty-named str field and has
\* between 1 and MaxFields entries ever after.  A step appends one such
\* field, and only below MaxFields entries, or edits one entry in place, or
\* leaves the list alone (every step of a submission does); none removes or
\* reorders entries.
C10_FieldListBounded ==
    /\ schema_fields = <<EmptyField>>
    /\ [](Len(schema_fields) \in 1..MaxFields)
    /\ [][/\ \/ schema_fields' = schema_fields
             \/ /\ Len(schema_fields) < MaxFields
                /\ schema_fields' = Append(schema_fields, EmptyField)
             \/ /\ Len(schema_fields') = Len(schema_fields)
                /\ \E i \in 1..Len(schema_fields) :
                      \A j \in 1..Len(schema_fields) :
                          j # i => schema_fields'[j] = schema_fields[j]
          /\ (pc # "idle" \/ pc' # "idle" \/ messages' # messages)
                => schema_fields' = schema_fields]_vars

C10_Witness ==
    /\ Len(schema_fields) = MaxFields
    /\ schema_fields[MaxFields].name # ""
    /\ messages # <<>>

-----------------------------------------------------------------------------
(* The pure functions applied to bounded inputs *)

\* Containers of the JSON inputs nest at most this deep.
MaxDepth == 3

\* Field lists handed to create_schema_from_fields have at most this many.
MaxSchemaLen == 3

\* The integers handed to convert_to_table are 0..MaxNum.
MaxNum == 2

Scalars == {JNum(1), JStr("x"), JNull}

JsonKeys == {"a", "b", "a_b"}

\* The values nesting at most d deep whose containers hold at most one child.
RECURSIVE Chain(_)
Chain(d) ==
    IF d = 0 THEN Scalars
    ELSE LET C == Chain(d - 1)
         IN Scalars \cup {JObj(<<>>), JArr(<<>>)}
            \cup {JObj(<<Entry(k, v)>>) : k \in JsonKeys, v \in C}
            \cup {JArr(<<Elem(v)>>) : v \in C}

\* The containers of two children, each nesting at most d deep.
Wide(d) ==
    LET C == Chain(d)
    IN {JObj(<<Entry(k[1], v[1]), Entry(k[2], v[2])>>) :
            k \in {kk \in JsonKeys \X JsonKeys : kk[1] # kk[2]}, v \in C \X C}
       \cup {JArr(<<Elem(v[1]), Elem(v[2])>>) : v \in C \X C}

JsonInputs == Chain(MaxDepth) \cup Wide(MaxDepth - 2)

FlattenArgs == [parent_key : {"", "p"}, sep : {"_", "."}]

SchemaTags == {"str", "bool", "int", "float", "date"}

SchemaNames == {"", "a", "b"}

FieldLists ==
    UNION {[1..n -> [name : SchemaNames, type : SchemaTags]] : n \in 0..MaxSchemaLen}

TableScalars ==
    {JStr(str) : str \in {"", "hello", "0"}} \cup {JNum(n) : n \in 0..MaxNum}
    \cup {JBool(TRUE), JBool(FALSE), JNull}

TableRows ==
    {JObj(<<>>)} \cup {JObj(<<Entry(k, v)>>) : k \in {"a", "b"}, v \in Scalars}
    \cup {JObj(<<Entry("a", v[1]), Entry("b", v[2])>>) : v \in Scalars \X Scalars}

TableInputs ==
    LET E == TableScalars \cup TableRows
    IN E \cup {JArr(<<>>)} \cup {JArr(<<Elem(e)>>) : e \in E}
         \cup {JArr(<<Elem(e[1]), Elem(e[2])>>) : e \in E \X E}

Applying(name) == [name |-> name, done |-> FALSE]

Applied(name) == [name |-> name, done |-> TRUE]

InitFlatten ==
    /\ SessionInit
    /\ fn = Applying("flatten_json")
    /\ arg \in JsonInputs
    /\ arg2 \in FlattenArgs
    /\ out = JNull

ApplyFlatten ==
    /\ fn = Applying("flatten_json")
    /\ out' = flatten_json(arg, arg2.parent_key, arg2.sep)
    /\ fn' = Applied("flatten_json")
    /\ UNCHANGED <<arg, arg2>>
    /\ UNCHANGED sessionVars

SpecFlatten == InitFlatten /\ [][ApplyFlatten]_vars

InitSchema ==
    /\ SessionInit
    /\ fn = Applying("create_schema_from_fields")
    /\ arg \in FieldLists
    /\ arg2 = JNull
    /\ out = None

ApplySchema ==
    /\ fn = Applying("create_schema_from_fields")
    /\ out' = create_schema_from_fields(arg)
    /\ fn' = Applied("create_schema_from_fields")
    /\ UNCHANGED <<arg, arg2>>
    /\ UNCHANGED sessionVars

SpecSchema == InitSchema /\ [][ApplySchema]_vars

InitTable ==
    /\ SessionInit
    /\ fn = Applying("convert_to_table")
    /\ arg \in TableInputs
    /\ arg2 = JNull
    /\ out = ""

ApplyTable ==
    /\ fn = Applying("convert_to_table")
    /\ out' = convert_to_table(arg)
    /\ fn' = Applied("convert_to_table")
    /\ UNCHANGED <<arg, arg2>>
    /\ UNCHANGED sessionVars

SpecTable == InitTable /\ [][ApplyTable]_vars

-----------------------------------------------------------------------------
(* Properties of the pure functions *)

Join(path, sep, segment) ==
    IF path = "" THEN segment ELSE path \o sep \o segment

\* The leaf scalars of a value, each with the sep-joined path of the keys
\* and indices above it.
RECURSIVE Leaves(_, _, _)
RECURSIVE LeavesOfChildren(_, _, _, _, _)

LeavesOfChildren(kind, ch, path, sep, i) ==
    IF i > Len(ch) THEN <<>>
    ELSE LET segment == IF kind = "dict" THEN ch[i].k ELSE ToString(i - 1)
         IN Leaves(ch[i].v, Join(path, sep, segment), sep)
            \o LeavesOfChildren(kind, ch, path, sep, i + 1)

Leaves(j, path, sep) ==
    IF j.t \in {"dict", "list"} THEN LeavesOfChildren(j.t, j.ch, path, sep, 1)
    ELSE <<Entry(path, j)>>

\* A row holds exactly these leaves: each of them, and nothing else.
HoldsExactly(row, leaves) ==
    /\ row.t = "dict"
    /\ Len(row.ch) = Len(leaves)
    /\ \A i \in 1..Len(leaves) : \E n \in 1..Len(row.ch) : row.ch[n] = leaves[i]

\* The flattened output shows every leaf of the input once under its path:
\* a dict gives one row, a list one output per element, a scalar itself.
RECURSIVE EveryLeafOnce(_, _, _, _)
EveryLeafOnce(j, result, path, sep) ==
    /\ ~IsRaise(result)
    /\ CASE j.t = "dict" -> HoldsExactly(result, Leaves(j, path, sep))
         [] j.t = "list" ->
               /\ result.t = "list"
               /\ Len(result.ch) = Len(j.ch)
               /\ \A i \in 1..Len(j.ch) :
                     EveryLeafOnce(j.ch[i].v, result.ch[i].v, path, sep)
         [] OTHER -> result = j

\* C6: for every JSON value flatten_json (called as the page calls it, with
\* no prefix and the default separator) returns without raising, and every
\* leaf scalar of the input appears exactly once in the output under the
\* separator-joined path of its ancestor keys and indices.
C6_EveryLeafExactlyOnce ==
    (fn = Applied("flatten_json") /\ arg2 = [parent_key |-> "", sep |-> "_"]) =>
        EveryLeafOnce(arg, out, "", "_")

\* C9: for a list under a key of the flattened dict, and for every
\* separator, the keys of element i are those of the element flattened under
\* prefix + separator + i.
C9_IndexJoinedBySeparator ==
    (fn = Applied("flatten_json") /\ arg.t = "dict" /\ ~IsRaise(out)) =>
        \A e \in 1..Len(arg.ch) :
            arg.ch[e].v.t = "list" =>
                \A i \in 1..Len(arg.ch[e].v.ch) :
                    LET prefix == Join(arg2.parent_key, arg2.sep, arg.ch[e].k)
                        under == flatten_json(arg.ch[e].v.ch[i].v,
                                              prefix \o arg2.sep \o ToString(i - 1),
                                              arg2.sep)
                    IN \A n \in 1..Len(under.ch) :
                          KeyIndex(out.ch, under.ch[n].k) # 0

\* The JSON-Schema type the fixed lookup gives a type tag.
LookupType(tag) ==
    CASE tag = "bool" -> "boolean"
      [] tag = "int" -> "integer"
      [] tag = "float" -> "number"
      [] OTHER -> "string"

NonEmptyNames(fields) ==
    {fields[i].name : i \in {n \in 1..Len(fields) : fields[n].name # ""}}

\* C7: create_schema_from_fields returns None exactly when every name is
\* empty; otherwise the descriptor has one property per distinct non-empty
\* name, typed by the lookup of the tag of the (last) field of that name,
\* and lists exactly those names as required.
C7_SchemaFromFields ==
    fn = Applied("create_schema_from_fields") =>
        /\ out = None <=> \A i \in 1..Len(arg) : arg[i].name = ""
        /\ out # None =>
              /\ out.type = "object"
              /\ {out.properties[n].k : n \in 1..Len(out.properties)}
                    = NonEmptyNames(arg)
              /\ Len(out.properties) = Cardinality(NonEmptyNames(arg))
              /\ \A i \in 1..Len(arg) :
                    (/\ arg[i].name # ""
                     /\ \A later \in (i + 1)..Len(arg) : arg[later].name # arg[i].name)
                    => \E n \in 1..Len(out.properties) :
                          out.properties[n] = Entry(arg[i].name, LookupType(arg[i].type))
              /\ {out.required[n] : n \in 1..Len(out.required)} = NonEmptyNames(arg)
              /\ Len(out.required) = Cardinality(NonEmptyNames(arg))

C7_Witness ==
    /\ fn = Applied("create_schema_from_fields")
    /\ arg = <<Field("a", "date"), Field("", "int"), Field("b", "float")>>
    /\ out.required = <<"a", "b">>

IsScalar(x) == x.t \in {"str", "int", "bool"}

\* C8 as claimed: every bare scalar, the empty string, 0 and false among
\* them, renders as "Extracted text: " and its string form.
C8_EveryScalarIsExtractedText ==
    (fn = Applied("convert_to_table") /\ IsScalar(arg)) =>
        out = ExtractedText \o PyStr(arg)

\* C8 as the code has it: a non-empty string renders as "Extracted text: "
\* and the string, which is neither sentinel; the empty string, 0 and false
\* render as "No data available."; every other number, and true, renders as
\* "Invalid data format received.".
C8_NonEmptyStringIsExtractedText ==
    (fn = Applied("convert_to_table") /\ IsScalar(arg)) =>
        IF arg.t = "str" /\ arg.s # ""
        THEN /\ out = ExtractedText \o arg.s
             /\ out \notin {NoDataAvailable, InvalidDataFormatReceived}
        ELSE IF arg \in {JStr(""), JNum(0), JBool(FALSE)}
        THEN out = NoDataAvailable
        ELSE out = InvalidDataFormatReceived

C8_Witness ==
    /\ fn = Applied("convert_to_table")
    /\ arg = JStr("hello")
    /\ out = "Extracted text: hello"

====
